---- MODULE Spec2Model ----
(***************************************************************************)
(* Model of the Book Source Extractor:                                     *)
(*   src/services/scraperService.ts                                        *)
(*     isValidContent, fetchViaCorsProxy, fetchViaAllOrigins,               *)
(*     fetchViaCodeTabs, fetchBookSources, parseHtmlContent.                *)
(*   src/App.tsx                                                           *)
(*     handleFetch, handleAnalyze, handlePageChange, the fetch effect and  *)
(*     the buttons that call them.                                         *)
(*                                                                         *)
(* Strings are sequences of one-character strings, so that length and      *)
(* regular-expression matching are computed on the text itself.  Opaque    *)
(* configuration values (BASE_URL, ...) are one-element sequences.         *)
(*                                                                         *)
(* Spec     one call of fetchBookSources: the invocations are launched,    *)
(*          the relays answer in any order, Promise.any settles, the call  *)
(*          resumes and returns.                                           *)
(* SpecPure isValidContent and parseHtmlContent applied to one HTML input. *)
(* SpecLive Spec with fairness: a fetch or body read that is awaited        *)
(*          settles, and a settled Promise.any resumes the call.           *)
(* SpecCalls parseHtmlContent called repeatedly, each call with its Map.    *)
(* SpecApp  the App component: a step is a handler or a resolved await,     *)
(*          together with the render that follows it.                      *)
(***************************************************************************)
EXTENDS Integers, Sequences, FiniteSets, TLC

\* ------------------------------------------------------------------------
\* Bounds of the model
\* ------------------------------------------------------------------------
MaxPage == 3
MaxEntries == 3
MaxDateLen == 11
MaxCalls == 3
MaxTimers == 2

\* ------------------------------------------------------------------------
\* State of the scraping core
\* ------------------------------------------------------------------------
VARIABLES
    pc,         \* fetchBookSources: "idle" (not called), "racing" (at await Promise.any), "done"
    page,       \* the argument of fetchBookSources
    inv,        \* the fetcher invocations in strategies[], in array order
    anyP,       \* the promise Promise.any(strategies) returned
    result,     \* <<>> or <<how fetchBookSources ended: Returned(ScrapeResult) or Raised(e)>>
    firstOk,    \* history: index of the invocation that returned first, 0 if none has
    domError,   \* history: what the DOM raised in parseHtmlContent, <<>> if nothing
    input,      \* an HTML string handed to isValidContent / parseHtmlContent on its own
    valid,      \* <<>> or <<isValidContent(input)>>
    parsed,     \* <<>> or <<parseHtmlContent(input)>>
    uniqueSources,  \* the Map the latest parseHtmlContent call filled (line 95)
    calls       \* history: the parseHtmlContent calls made so far, [html, thrown, result] each

raceVars == <<pc, page, inv, anyP, result, firstOk>>

pureVars == <<input, valid, parsed>>

callVars == <<uniqueSources, calls>>

\* ------------------------------------------------------------------------
\* Text helpers
\* ------------------------------------------------------------------------
Digits == {"0", "1", "2", "3", "4", "5", "6", "7", "8", "9"}

Whitespace == {" ", "\n", "\t"}

Min(S) == CHOOSE x \in S : \A y \in S : x <= y

\* s.startsWith(p)
StartsWith(s, p) == Len(s) >= Len(p) /\ SubSeq(s, 1, Len(p)) = p

\* whether p occurs in s at position i
OccursAt(s, p, i) == i >= 1 /\ i + Len(p) - 1 <= Len(s) /\ SubSeq(s, i, i + Len(p) - 1) = p

\* length of the maximal run of digits of s that starts at position j (\d+ is greedy)
DigitRun(s, j) ==
    IF j < 1 \/ j > Len(s) THEN 0
    ELSE Min({k \in 0 .. (Len(s) + 1 - j) : j + k > Len(s) \/ s[j + k] \notin Digits})

\* length of the maximal run of whitespace of s that starts at position j
WsRun(s, j) ==
    IF j < 1 \/ j > Len(s) THEN 0
    ELSE Min({k \in 0 .. (Len(s) + 1 - j) : j + k > Len(s) \/ s[j + k] \notin Whitespace})

\* whether the character of s at position j is c
CharAt(s, j, c) == j >= 1 /\ j <= Len(s) /\ s[j] = c

\* n copies of the character c
Repeat(c, n) == [i \in 1 .. n |-> c]

\* ------------------------------------------------------------------------
\* Program constants
\* ------------------------------------------------------------------------
\* src/services/scraperService.ts:11  html.length < 500
MinContentLength == 500

\* imported from '../constants' (scraperService.ts:2)
TARGET_URL == <<"TARGET_URL">>

BASE_URL == <<"BASE_URL">>

JSON_BASE_URL == <<"JSON_BASE_URL">>

\* the literal text of idRegex: content/id/ ... .html
LINK_PREFIX == <<"c", "o", "n", "t", "e", "n", "t", "/", "i", "d", "/">>

DOT_HTML == <<".", "h", "t", "m", "l">>

\* ------------------------------------------------------------------------
\* idRegex = /content\/id\/(\d+)\.html/
\* ------------------------------------------------------------------------
\* the regex matches s starting at position i
idRegexAt(s, i) ==
    /\ OccursAt(s, LINK_PREFIX, i)
    /\ LET j == i + Len(LINK_PREFIX)
           k == DigitRun(s, j)
       IN  k >= 1 /\ OccursAt(s, DOT_HTML, j + k)

\* RegExp.prototype.test
idRegexTest(s) == \E i \in 1 .. Len(s) : s[i] = "c" /\ idRegexAt(s, i)

\* String.prototype.match: <<>> for null, else <<capture group 1>> of the leftmost match
idRegexMatch(s) ==
    IF ~idRegexTest(s) THEN <<>>
    ELSE LET i == Min({x \in 1 .. Len(s) : s[x] = "c" /\ idRegexAt(s, x)})
             j == i + Len(LINK_PREFIX)
         IN  <<SubSeq(s, j, j + DigitRun(s, j) - 1)>>

\* ------------------------------------------------------------------------
\* HTML text.  An HTML string is held as the document it denotes plus its
\* trailing filler, and is turned into characters by RawText: html.length and
\* the regular expressions are computed on those characters, while
\* DOMParser / querySelectorAll('a') read the document.
\*   html  == [kind |-> "string", doc |-> <<entry, ...>>, pad |-> n]
\*          | [kind |-> "undefined"]          (a missing JSON property)
\*   entry == [tag |-> "a", hasHref, href, text, ptext, gtext, gfill]
\*               <ul><li><a href="href">text</a>ptext</li>gtext x...x</ul>
\*               (gfill times the filler character x)
\*          | [tag |-> "text", text]
\*               <p>text</p>
\* ------------------------------------------------------------------------
\* the markup RawText writes
CHARS_UL_LI == <<"<", "u", "l", ">", "<", "l", "i", ">">>

CHARS_LI_END == <<"<", "/", "l", "i", ">">>

CHARS_UL_END == <<"<", "/", "u", "l", ">">>

CHARS_A_HREF == <<"<", "a", " ", "h", "r", "e", "f", "=", "\"">>

CHARS_QUOTE_GT == <<"\"", ">">>

CHARS_A == <<"<", "a", ">">>

CHARS_A_END == <<"<", "/", "a", ">">>

CHARS_P == <<"<", "p", ">">>

CHARS_P_END == <<"<", "/", "p", ">">>

Undefined == [kind |-> "undefined"]

Html(doc, pad) == [kind |-> "string", doc |-> doc, pad |-> pad]

EmptyString == Html(<<>>, 0)

\* an anchor with text beside it in its parent and in its grandparent
AnchorIn(href, text, ptext, gtext, gfill) ==
    [tag |-> "a", hasHref |-> TRUE, href |-> href, text |-> text,
     ptext |-> ptext, gtext |-> gtext, gfill |-> gfill]

Anchor(href, text) == AnchorIn(href, text, <<>>, <<>>, 0)

AnchorNoHref(text) == [Anchor(<<>>, text) EXCEPT !.hasHref = FALSE]

\* link.parentElement.textContent
ParentText(e) == e.text \o e.ptext

\* link.parentElement.parentElement.textContent
GrandParentText(e) == ParentText(e) \o e.gtext \o Repeat("x", e.gfill)

TextNode(text) == [tag |-> "text", text |-> text]

EntryText(e) ==
    IF e.tag = "a"
    THEN CHARS_UL_LI
         \o (IF e.hasHref THEN CHARS_A_HREF \o e.href \o CHARS_QUOTE_GT ELSE CHARS_A)
         \o e.text \o CHARS_A_END \o e.ptext \o CHARS_LI_END
         \o e.gtext \o Repeat("x", e.gfill) \o CHARS_UL_END
    ELSE CHARS_P \o e.text \o CHARS_P_END

RECURSIVE DocText(_)
DocText(doc) == IF doc = <<>> THEN <<>> ELSE EntryText(Head(doc)) \o DocText(Tail(doc))

\* the characters of an HTML string
RawText(html) == DocText(html.doc) \o Repeat(" ", html.pad)

\* ------------------------------------------------------------------------
\* isValidContent (scraperService.ts:10-15)
\* ------------------------------------------------------------------------
\* a variant whose length test is off by one (<= for <)
isValidContentOffByOne(html) ==
    IF html.kind = "undefined" THEN FALSE
    ELSE LET raw == RawText(html)
         IN  IF Len(raw) = 0 \/ Len(raw) <= MinContentLength THEN FALSE ELSE idRegexTest(raw)

\* a variant without the pattern test: any text long enough passes
isValidContentLengthOnly(html) ==
    IF html.kind = "undefined" THEN FALSE
    ELSE LET raw == RawText(html)
         IN  ~(Len(raw) = 0 \/ Len(raw) < MinContentLength)

isValidContent(html) ==
    IF html.kind = "undefined" THEN FALSE
    ELSE LET raw == RawText(html)
         IN  IF Len(raw) = 0 \/ Len(raw) < MinContentLength THEN FALSE ELSE idRegexTest(raw)

\* ------------------------------------------------------------------------
\* parseHtmlContent (scraperService.ts:89-193)
\* ------------------------------------------------------------------------
RECURSIVE DropLeadingWs(_)
DropLeadingWs(s) ==
    IF s # <<>> /\ Head(s) \in Whitespace THEN DropLeadingWs(Tail(s)) ELSE s

\* s.replace(/\s+/g, ' '): of each run of whitespace the first character stays,
\* as a space
CollapseWs(s) ==
    LET Stays(i) == ~(s[i] \in Whitespace /\ i > 1 /\ s[i - 1] \in Whitespace)
        kept == SelectSeq([i \in 1 .. Len(s) |-> i], Stays)
    IN  [k \in 1 .. Len(kept) |-> IF s[kept[k]] \in Whitespace THEN " " ELSE s[kept[k]]]

RECURSIVE DropTrailingWs(_)
DropTrailingWs(s) ==
    IF s # <<>> /\ s[Len(s)] \in Whitespace
    THEN DropTrailingWs(SubSeq(s, 1, Len(s) - 1))
    ELSE s

\* s.trim()
Trim(s) == DropTrailingWs(DropLeadingWs(s))

CHARS_SOURCE == <<"S", "o", "u", "r", "c", "e", " ">>

CHARS_DOT_JSON == <<".", "j", "s", "o", "n">>

CHARS_HTTP == <<"h", "t", "t", "p">>

\* line 115: link.textContent?.replace(/\s+/g, ' ').trim() || `Source ${id}`
TitleOf(link, id) ==
    LET t == Trim(CollapseWs(link.text))
    IN  IF t = <<>> THEN CHARS_SOURCE \o id ELSE t

\* line 118
JsonUrlOf(id) == JSON_BASE_URL \o <<"/">> \o id \o CHARS_DOT_JSON

\* new URL(href, base) throws on a host it cannot parse, e.g. "//[" or "http://["
UrlThrows(href) ==
    \E i \in 1 .. Len(href) : OccursAt(href, <<"/", "/", "[">>, i)

\* new URL(href, BASE_URL + '/').href for an href the constructor accepts
UrlHref(href) ==
    IF StartsWith(href, CHARS_HTTP) THEN href
    ELSE IF StartsWith(href, <<"/">>) THEN BASE_URL \o href
    ELSE BASE_URL \o <<"/">> \o href

\* lines 121-128
OriginalUrlOf(href) ==
    IF ~UrlThrows(href) THEN UrlHref(href)
    ELSE IF ~StartsWith(href, CHARS_HTTP)
         THEN BASE_URL \o <<"/">> \o (IF StartsWith(href, <<"/">>) THEN Tail(href) ELSE href)
         ELSE href

\* a variant that never finds the id: no deduplication
HasIdNever(sources, id) == FALSE

\* ------------------------------------------------------------------------
\* The date near a link (lines 100-105, 130-157).  The glyphs of dateRegex3 are
\* one character each: "tian" (day), "xiao" "shi" (hour), "fen" "zhong"
\* (minute), "miao" (second), "qian" (ago).
\* ------------------------------------------------------------------------
\* line 148: grandParentText.length < 1000
GrandParentMaxLength == 1000

\* the leftmost match: <<>> for null, else <<the text matched>>
LeftmostMatch(s, ends) ==
    LET hits == {i \in DOMAIN ends : ends[i] # 0}
    IN  IF hits = {} THEN <<>> ELSE <<SubSeq(s, Min(hits), ends[Min(hits)])>>

\* where a match of dateRegex1 = /(\d{4}-\d{2}-\d{2})/ that starts at i ends, 0 if none does
dateRegex1End(s, i) ==
    IF /\ i + 9 <= Len(s)
       /\ \A m \in {0, 1, 2, 3, 5, 6, 8, 9} : s[i + m] \in Digits
       /\ s[i + 4] = "-"
       /\ s[i + 7] = "-"
    THEN i + 9 ELSE 0

\* the characters \d{1,2} takes at position j: the digits there, two at most
Digits12(s, j) == IF DigitRun(s, j) > 2 THEN 2 ELSE DigitRun(s, j)

\* where a match of dateRegex2 = /(\d{1,2}\/\d{1,2}\s+\d{1,2}:\d{1,2})/ that starts at i ends
dateRegex2End(s, i) ==
    LET slash == i + Digits12(s, i)
        gap == slash + 1 + Digits12(s, slash + 1)
        hour == gap + WsRun(s, gap)
        colon == hour + Digits12(s, hour)
        last == colon + Digits12(s, colon + 1)
    IN  IF /\ slash > i /\ CharAt(s, slash, "/")
           /\ gap > slash + 1
           /\ hour > gap
           /\ colon > hour /\ CharAt(s, colon, ":")
           /\ last > colon
        THEN last ELSE 0

TimeUnits == {<<"tian">>, <<"xiao", "shi">>, <<"fen", "zhong">>, <<"miao">>}

\* where a match of dateRegex3 = /(\d+\s*(?:tian|xiao shi|fen zhong|miao)qian)/ that starts at i ends
dateRegex3End(s, i) ==
    LET unit == i + DigitRun(s, i) + WsRun(s, i + DigitRun(s, i))
        found == {u \in TimeUnits : OccursAt(s, u \o <<"qian">>, unit)}
    IN  IF DigitRun(s, i) >= 1 /\ found # {}
        THEN unit + Len(CHOOSE u \in found : TRUE) ELSE 0

dateRegex1Match(s) == LeftmostMatch(s, [i \in 1 .. Len(s) |-> dateRegex1End(s, i)])

dateRegex2Match(s) == LeftmostMatch(s, [i \in 1 .. Len(s) |-> dateRegex2End(s, i)])

dateRegex3Match(s) == LeftmostMatch(s, [i \in 1 .. Len(s) |-> dateRegex3End(s, i)])

\* a variant that tries the three patterns in the reverse order
DateMatchRelativeFirst(text) ==
    IF dateRegex3Match(text) # <<>> THEN dateRegex3Match(text)
    ELSE IF dateRegex2Match(text) # <<>> THEN dateRegex2Match(text)
    ELSE dateRegex1Match(text)

\* lines 138-140, 149-151: match(dateRegex1) || match(dateRegex2) || match(dateRegex3)
DateMatch(text) ==
    IF dateRegex1Match(text) # <<>> THEN dateRegex1Match(text)
    ELSE IF dateRegex2Match(text) # <<>> THEN dateRegex2Match(text)
    ELSE dateRegex3Match(text)

\* a variant whose guard is off by one (<= for <)
UpdateDateOfOffByOne(link) ==
    LET contextText == CollapseWs(ParentText(link))
        grandParentText == CollapseWs(GrandParentText(link))
    IN  IF DateMatch(contextText) # <<>> THEN DateMatch(contextText)
        ELSE IF Len(grandParentText) <= GrandParentMaxLength THEN DateMatch(grandParentText)
        ELSE <<>>

\* a variant that searches the grandparent's text first: it holds the parent's
UpdateDateOfWidestFirst(link) ==
    LET contextText == CollapseWs(ParentText(link))
        grandParentText == CollapseWs(GrandParentText(link))
    IN  IF Len(grandParentText) < GrandParentMaxLength /\ DateMatch(grandParentText) # <<>>
        THEN DateMatch(grandParentText)
        ELSE DateMatch(contextText)

\* lines 131-157: <<>> for undefined, else <<updateDate>>
UpdateDateOf(link) ==
    LET contextText == CollapseWs(ParentText(link))
        grandParentText == CollapseWs(GrandParentText(link))
    IN  IF DateMatch(contextText) # <<>> THEN DateMatch(contextText)
        ELSE IF Len(grandParentText) < GrandParentMaxLength THEN DateMatch(grandParentText)
        ELSE <<>>

\* uniqueSources.has(id)
HasId(sources, id) == \E k \in 1 .. Len(sources) : sources[k].id = id

\* a variant without the test of line 159: a later link with the same id
\* replaces the record (Map.set keeps the key's place)
VisitLinkLastWins(sources, link) ==
    IF ~link.hasHref \/ link.href = <<>> THEN sources
    ELSE LET match == idRegexMatch(link.href)
         IN  IF match = <<>> THEN sources
             ELSE LET id == match[1]
                      record == [id |-> id,
                                 title |-> TitleOf(link, id),
                                 originalUrl |-> OriginalUrlOf(link.href),
                                 jsonUrl |-> JsonUrlOf(id),
                                 updateDate |-> UpdateDateOf(link)]
                  IN  IF HasId(sources, id)
                      THEN [k \in DOMAIN sources |->
                               IF sources[k].id = id THEN record ELSE sources[k]]
                      ELSE Append(sources, record)

\* the body of links.forEach (lines 107-169) for one link
VisitLink(sources, link) ==
    IF ~link.hasHref \/ link.href = <<>> THEN sources
    ELSE LET match == idRegexMatch(link.href)
         IN  IF match = <<>> THEN sources
             ELSE LET id == match[1]
                  IN  IF HasId(sources, id) THEN sources
                      ELSE Append(sources,
                                  [id |-> id,
                                   title |-> TitleOf(link, id),
                                   originalUrl |-> OriginalUrlOf(link.href),
                                   jsonUrl |-> JsonUrlOf(id),
                                   updateDate |-> UpdateDateOf(link)])

RECURSIVE VisitLinks(_, _)
VisitLinks(sources, links) ==
    IF links = <<>> THEN sources
    ELSE VisitLinks(VisitLink(sources, Head(links)), Tail(links))

IsAnchor(e) == e.tag = "a"

\* doc.querySelectorAll('a')
QuerySelectorAllA(doc) == SelectSeq(doc, IsAnchor)

MSG_NO_LINKS == <<"Parsed HTML successfully but found no matching source links on this page.">>

MSG_PARSE_FAILED == <<"Failed to parse HTML content: ">>

\* a variant without the check for an empty list
ResultOfUnchecked(sources) == [success |-> TRUE, data |-> sources]

\* lines 173-184
ResultOf(sources) ==
    IF Len(sources) = 0
    THEN [success |-> FALSE, data |-> <<>>, error |-> MSG_NO_LINKS]
    ELSE [success |-> TRUE, data |-> sources]

\* how a block of code ends: with a value, or with an exception
Returned(v) == [raised |-> FALSE, value |-> v]

Raised(e) == [raised |-> TRUE, error |-> e]

\* a variant in which the Map is created once, outside the function, and so
\* outlives the call
NewMapKept == uniqueSources

\* line 95: new Map<string, BookSource>(), made afresh by every call
NewMap == <<>>

\* the Map once links.forEach has run (lines 93-169)
FilledMap(html) == VisitLinks(NewMap, QuerySelectorAllA(html.doc))

\* the try block of parseHtmlContent (lines 91-184); thrown is <<>>, or <<message>>
\* of an exception the DOM raises while the block runs
ParseTry(html, thrown) ==
    IF thrown # <<>>
    THEN Raised([name |-> "Error", message |-> thrown])
    ELSE Returned(ResultOf(FilledMap(html)))

\* parseHtmlContent(html): the try block and its catch (lines 186-192)
parseHtmlContent(html, thrown) ==
    LET t == ParseTry(html, thrown)
    IN  IF t.raised
        THEN [success |-> FALSE, data |-> <<>>, error |-> MSG_PARSE_FAILED \o t.error.message]
        ELSE t.value

\* ------------------------------------------------------------------------
\* Inputs: what the relays answer, and the HTML handed to the pure functions
\* ------------------------------------------------------------------------
HREF_ID1 == <<"/", "c", "o", "n", "t", "e", "n", "t", "/", "i", "d", "/", "1", ".", "h", "t", "m", "l">>

HREF_ID1_RELATIVE == <<"c", "o", "n", "t", "e", "n", "t", "/", "i", "d", "/", "1", ".", "h", "t", "m", "l">>

HREF_ID2 == <<"/", "c", "o", "n", "t", "e", "n", "t", "/", "i", "d", "/", "2", ".", "h", "t", "m", "l">>

HREF_ID12 == <<"/", "c", "o", "n", "t", "e", "n", "t", "/", "i", "d", "/", "1", "2", ".", "h", "t", "m", "l">>

HREF_NO_DIGITS == <<"/", "c", "o", "n", "t", "e", "n", "t", "/", "i", "d", "/", ".", "h", "t", "m", "l">>

TEXT_LINK == <<"s", "e", "e", " ", "c", "o", "n", "t", "e", "n", "t", "/", "i", "d", "/", "7", ".", "h", "t", "m", "l">>

TITLE_A == <<"A">>

TITLE_B == <<" ", "B", " ", "\n", " ", "b", " ">>

DATE_ISO == <<" ", "2", "0", "2", "4", "-", "0", "1", "-", "0", "2">>

DATE_AGO == <<" ", "3", " ", "tian", "qian">>

HREF_ID1_ABSOLUTE == <<"h", "t", "t", "p", ":", "/", "/", "m", "/", "c", "o", "n", "t", "e", "n", "t", "/", "i", "d", "/", "1", ".", "h", "t", "m", "l">>

DATE_SLASH == <<" ", "1", "1", "/", "2", "4", " ", "1", "3", ":", "0", "2">>

DATE_HOURS == <<" ", "1", "8", "xiao", "shi", "qian">>

\* the same date after a run of whitespace that collapses to one space
DATE_ISO_SPACED == <<" ", "\n", "\n">> \o DATE_ISO

\* texts that come close to the three patterns and match none
DATE_NEAR == <<" ", "2", "0", "2", "4", "-", "1", "-", "0", "2", " ", "1", "/", "2", " ", "3", " ", ":", "4", " ", "5", " ", "qian">>

\* what stands beside a link in its parent
ParentTexts ==
    {<<>>, DATE_ISO, DATE_SLASH, DATE_AGO, DATE_HOURS, DATE_NEAR,
     DATE_AGO \o DATE_ISO, DATE_AGO \o DATE_SLASH, DATE_SLASH \o DATE_ISO}

\* what stands beside the parent in the grandparent
GrandParentTexts == {<<>>, DATE_ISO, DATE_ISO_SPACED, DATE_AGO}

\* links in a short list item
DateEntries ==
    {AnchorIn(HREF_ID1, TITLE_A, ptext, gtext, 0) : ptext \in ParentTexts, gtext \in GrandParentTexts}

\* an anchor whose grandparent text, once whitespace is collapsed, has n characters
AnchorFilledTo(href, text, ptext, gtext, n) ==
    AnchorIn(href, text, ptext, gtext, n - Len(CollapseWs(text \o ptext \o gtext)))

\* links in a list whose text is about as long as the guard of line 148 allows
LongDateEntries ==
    {AnchorFilledTo(HREF_ID1, TITLE_A, ptext, gtext, n) :
        ptext \in {<<>>, DATE_NEAR, DATE_AGO},
        gtext \in {DATE_ISO, DATE_ISO_SPACED},
        n \in {GrandParentMaxLength - 1, GrandParentMaxLength, GrandParentMaxLength + 1}}

\* links that repeat an id with another title, address and date
DupEntries ==
    { AnchorIn(HREF_ID1, TITLE_A, DATE_ISO, <<>>, 0),
      AnchorIn(HREF_ID1_ABSOLUTE, TITLE_B, DATE_AGO, <<>>, 0),
      AnchorIn(HREF_ID2, TITLE_A, DATE_SLASH, <<>>, 0),
      Anchor(HREF_ID2, <<>>) }

DupDocs == UNION {[1 .. n -> DupEntries] : n \in 2 .. MaxEntries}

EntryInputs ==
    { Anchor(HREF_ID1, TITLE_A),
      Anchor(HREF_ID1_RELATIVE, TITLE_B),
      Anchor(HREF_ID2, <<>>),
      AnchorIn(HREF_ID12, TITLE_A, DATE_ISO, DATE_AGO, 0),
      Anchor(HREF_NO_DIGITS, TITLE_A),
      Anchor(<<>>, TITLE_A),
      AnchorNoHref(TITLE_B),
      TextNode(TEXT_LINK),
      TextNode(TITLE_A) }

DocInputs == UNION {[1 .. n -> EntryInputs] : n \in 0 .. MaxEntries}

\* the document padded with filler to n characters in all
PadTo(doc, n) == Html(doc, n - Len(DocText(doc)))

\* every document as it is, and the documents of one entry at most padded to
\* the lengths around the validator's threshold
HtmlInputs ==
    {Html(doc, 0) : doc \in DocInputs}
    \cup {PadTo(doc, n) : doc \in {d \in DocInputs : Len(d) <= 1},
                          n \in {MinContentLength - 1, MinContentLength, MinContentLength + 1}}
    \cup {Html(<<e>>, 0) : e \in DateEntries \cup LongDateEntries}
    \cup {Html(doc, 0) : doc \in DupDocs}

\* the bodies a relay may answer with
PAGE_ONE == PadTo(<<Anchor(HREF_ID1, TITLE_A), Anchor(HREF_ID2, TITLE_B)>>, MinContentLength)

PAGE_TWO == PadTo(<<Anchor(HREF_ID12, TITLE_B)>>, MinContentLength + 1)

PAGE_TEXT_ONLY == PadTo(<<TextNode(TEXT_LINK)>>, MinContentLength)

PAGE_SHORT == PadTo(<<Anchor(HREF_ID1, TITLE_A)>>, MinContentLength - 1)

PAGE_BLOCKED == PadTo(<<TextNode(TITLE_A)>>, MinContentLength + 1)

NetBodies == {PAGE_ONE, PAGE_TWO, PAGE_TEXT_ONLY, PAGE_SHORT, PAGE_BLOCKED}

\* the values response.json() may yield: null, an envelope with contents, one without
JsonBodies ==
    {[isNull |-> TRUE]}
    \cup {[isNull |-> FALSE, contents |-> h] : h \in NetBodies \cup {EmptyString}}
    \cup {[isNull |-> FALSE]}

\* data.contents
GetContents(data) == IF "contents" \in DOMAIN data THEN data.contents ELSE Undefined

Statuses == {200, 404, 500}

\* <<>>: the DOM raises nothing; otherwise the message of what it raised
DomThrows == {<<>>, <<"DOMParser is not defined">>}

\* every html a fetcher can come to hold
RelayHtmls == NetBodies \cup {EmptyString, Undefined}

\* isValidContent of each of them, evaluated once
ValidAnswer == [h \in RelayHtmls |-> isValidContent(h)]

\* ------------------------------------------------------------------------
\* Fetchers (scraperService.ts:4-42)
\* ------------------------------------------------------------------------
PROXY_CORS_IO == <<"https://corsproxy.io/?">>

PROXY_ALL_ORIGINS == <<"https://api.allorigins.win/get?url=">>

PROXY_CODETABS == <<"https://api.codetabs.com/v1/proxy?quest=">>

DigitChar == <<"0", "1", "2", "3", "4", "5", "6", "7", "8", "9">>

\* `${n}` for a non-negative integer n
RECURSIVE NatToStr(_)
NatToStr(n) ==
    IF n < 10 THEN <<DigitChar[n + 1]>> ELSE NatToStr(n \div 10) \o <<DigitChar[(n % 10) + 1]>>

\* encodeURIComponent, on the characters URLs of the model are made of
EncodeChar(c) ==
    CASE c = "/" -> <<"%", "2", "F">>
      [] c = "?" -> <<"%", "3", "F">>
      [] c = "=" -> <<"%", "3", "D">>
      [] OTHER -> <<c>>

RECURSIVE encodeURIComponent(_)
encodeURIComponent(url) ==
    IF url = <<>> THEN <<>> ELSE EncodeChar(Head(url)) \o encodeURIComponent(Tail(url))

\* the URL the fetcher hands to fetch() (lines 19, 27-28, 37)
RequestUrl(fetcher, url) ==
    CASE fetcher = "CorsProxy" -> PROXY_CORS_IO \o url
      [] fetcher = "AllOrigins" ->
            PROXY_ALL_ORIGINS \o encodeURIComponent(url) \o <<"&timestamp=", "Date.now()">>
      [] fetcher = "CodeTabs" -> PROXY_CODETABS \o url

\* an Error object
Error(message) == [name |-> "Error", message |-> message]

\* lines 20, 29, 38
HttpError(fetcher, status) == Error(<<fetcher, " error: ">> \o NatToStr(status))

\* lines 22, 32, 40
InvalidContentError(fetcher) == Error(<<fetcher, " returned invalid content">>)

\* what fetch() itself rejects with
NetworkError == [name |-> "TypeError", message |-> <<"Failed to fetch">>]

\* what response.text() / response.json() reject with
BodyError(fetcher) ==
    IF fetcher = "AllOrigins"
    THEN [name |-> "SyntaxError", message |-> <<"Unexpected token < in JSON">>]
    ELSE [name |-> "TypeError", message |-> <<"Failed to read body">>]

\* reading .contents of a JSON value that is null
NullDataError == [name |-> "TypeError", message |-> <<"Cannot read properties of null">>]

\* response.ok
Ok(status) == status \in 200 .. 299

NoHtml == [kind |-> "unset"]

NoData == [isNull |-> FALSE, unset |-> TRUE]

NoError == [name |-> "none", message |-> <<>>]

\* an invocation that ran up to its first await: fetch() is issued
Launch(fetcher, url) ==
    [fetcher |-> fetcher, url |-> url, at |-> "fetch",
     requests |-> <<RequestUrl(fetcher, url)>>,
     status |-> 0, bodyRead |-> FALSE, data |-> NoData, html |-> NoHtml, error |-> NoError]

\* a variant that issues the request once more after a first failure
ThrowRetryOnce(f, e) ==
    IF Len(f.requests) < 2
    THEN [f EXCEPT !.at = "fetch", !.requests = Append(@, RequestUrl(f.fetcher, f.url))]
    ELSE [f EXCEPT !.at = "thrown", !.error = e]

\* the invocation throws e: its promise is rejected
Throw(f, e) == [f EXCEPT !.at = "thrown", !.error = e]

\* a variant that reads the body whatever the status
OnResponseUnchecked(f, status) == [f EXCEPT !.status = status, !.bodyRead = TRUE, !.at = "body"]

\* the continuation after await fetch(...) (lines 20-21, 29-30, 38-39)
OnResponse(f, status) ==
    IF ~Ok(status)
    THEN Throw([f EXCEPT !.status = status], HttpError(f.fetcher, status))
    ELSE [f EXCEPT !.status = status, !.bodyRead = TRUE, !.at = "body"]

\* the continuation after await response.text() / the html taken from data.contents
\* (lines 22-23, 32-33, 40-41)
OnHtml(f, html) ==
    IF ~ValidAnswer[html]
    THEN Throw([f EXCEPT !.html = html], InvalidContentError(f.fetcher))
    ELSE [f EXCEPT !.html = html, !.at = "returned"]

\* the continuation after await response.json() (lines 31-33)
OnJson(f, data) ==
    IF data.isNull
    THEN Throw([f EXCEPT !.data = data], NullDataError)
    ELSE OnHtml([f EXCEPT !.data = data], GetContents(data))

\* ------------------------------------------------------------------------
\* Promise.any (ES2021), as used at scraperService.ts:66
\* ------------------------------------------------------------------------
\* Promise.any over n promises, none settled yet
AnyPending(n) ==
    [state |-> "pending", value |-> NoHtml, errors |-> [i \in 1 .. n |-> NoError], remaining |-> n]

\* a variant in which every fulfilment overwrites the value: the last success wins
AnyOnFulfilledLastWins(any, i, v) == [any EXCEPT !.state = "fulfilled", !.value = v]

\* promise i of the array is fulfilled with v
AnyOnFulfilled(any, i, v) ==
    IF any.state = "pending" THEN [any EXCEPT !.state = "fulfilled", !.value = v] ELSE any

\* a variant that behaves like Promise.race: the first rejection rejects
AnyOnRejectedLikeRace(any, i, e) ==
    LET next == [any EXCEPT !.errors[i] = e, !.remaining = any.remaining - 1]
    IN  IF any.state = "pending" THEN [next EXCEPT !.state = "rejected"] ELSE next

\* promise i of the array is rejected with e: errors[i] = e, and the AggregateError
\* is raised once no promise remains
AnyOnRejected(any, i, e) ==
    LET next == [any EXCEPT !.errors[i] = e, !.remaining = any.remaining - 1]
    IN  IF any.state = "pending" /\ next.remaining = 0
        THEN [next EXCEPT !.state = "rejected"]
        ELSE next

\* ------------------------------------------------------------------------
\* fetchBookSources (scraperService.ts:44-87)
\* ------------------------------------------------------------------------
CHARS_PAGE_QUERY == <<"?", "p", "a", "g", "e", "=">>

\* line 46
UrlToFetch(p) == IF p = 1 THEN TARGET_URL ELSE TARGET_URL \o CHARS_PAGE_QUERY \o NatToStr(p)

\* a variant that adds the site-root invocation on every page
StrategiesAlwaysFallback(p) ==
    <<Launch("CorsProxy", UrlToFetch(p)),
      Launch("AllOrigins", UrlToFetch(p)),
      Launch("CodeTabs", UrlToFetch(p)),
      Launch("CorsProxy", BASE_URL \o <<"/">>)>>

\* lines 52-61: the invocations, launched in array order
Strategies(p) ==
    LET urlToFetch == UrlToFetch(p)
        base == <<Launch("CorsProxy", urlToFetch),
                  Launch("AllOrigins", urlToFetch),
                  Launch("CodeTabs", urlToFetch)>>
    IN  IF p = 1 THEN Append(base, Launch("CorsProxy", BASE_URL \o <<"/">>)) ELSE base

\* Array.prototype.join
RECURSIVE Join(_, _)
Join(parts, sep) ==
    IF parts = <<>> THEN <<>>
    ELSE IF Len(parts) = 1 THEN parts[1]
    ELSE parts[1] \o sep \o Join(Tail(parts), sep)

\* a variant that reports only the first rejection
ErrorDetailsFirstOnly(error) ==
    IF error.name = "AggregateError" THEN error.errors[1].message ELSE error.message

\* lines 73-79
ErrorDetails(error) ==
    IF error.name = "AggregateError"
    THEN Join([k \in 1 .. Len(error.errors) |-> error.errors[k].message], <<"; ">>)
    ELSE error.message

\* lines 81-85
AllFailedResult(p, error) ==
    [success |-> FALSE,
     data |-> <<>>,
     error |-> <<"Auto-fetch failed for Page ">> \o NatToStr(p)
               \o <<". All proxies were blocked or returned invalid data. Please use Manual Mode or try again. (Details: ">>
               \o ErrorDetails(error) \o <<")">>]

AggregateError(errors) == [name |-> "AggregateError", errors |-> errors]

\* the try block after await Promise.any(strategies) (lines 66-68): the await
\* yields the html or raises the AggregateError
RaceTry(any, thrown) ==
    IF any.state = "fulfilled"
    THEN Returned(parseHtmlContent(any.value, thrown))
    ELSE Raised(AggregateError(any.errors))

\* a variant without the catch block: the AggregateError leaves the function
AfterRaceNoCatch(any, p, thrown) == RaceTry(any, thrown)

\* a variant that treats a winning page without records like a lost race
AfterRaceFallback(any, p, thrown) ==
    LET t == RaceTry(any, thrown)
    IN  IF t.raised \/ ~t.value.success
        THEN Returned(AllFailedResult(p, AggregateError(any.errors)))
        ELSE t

\* how fetchBookSources ends once Promise.any has settled: the try block and
\* its catch (lines 63-86)
AfterRace(any, p, thrown) ==
    LET t == RaceTry(any, thrown)
    IN  IF t.raised THEN Returned(AllFailedResult(p, t.error)) ELSE t

\* ------------------------------------------------------------------------
\* State of the App component (App.tsx:9-24) and of what it has started
\* ------------------------------------------------------------------------
VARIABLES
    sources,        \* useState<BookSource[]>([])
    status,         \* useState<ScrapeStatus>(ScrapeStatus.IDLE)
    error,          \* useState<string | null>(null)
    currentPage,    \* useState(1)
    analysis,       \* useState<AnalysisResult | null>(null)
    isAnalyzing,    \* useState(false)
    hasApiKey,      \* whether process.env.API_KEY is set (line 24)
    mounted,        \* whether the effects of the first render have run
    fetches,        \* the fetchBookSources calls awaited at line 32: the page of each
    analyses,       \* the analyzeTitles calls awaited at line 71: the titles of each
    timers,         \* how many setTimeout callbacks of line 78 are pending
    shownPage,      \* history: the page of the fetch whose result was applied last, 0 if none
    analysisTitles  \* history: the titles the value of analysis was computed from

appVars == <<sources, status, error, currentPage, analysis, isAnalyzing, hasApiKey, mounted,
             fetches, analyses, timers, shownPage, analysisTitles>>

vars == <<pc, page, inv, anyP, result, firstOk, domError, input, valid, parsed,
          uniqueSources, calls, sources, status, error, currentPage, analysis, isAnalyzing,
          hasApiKey, mounted, fetches, analyses, timers, shownPage, analysisTitles>>

\* a value that may be null: <<>> for null, <<v>> for the value v
Null == <<>>

Some(v) == <<v>>

\* the component as useState initialises it, nothing started yet
AppInit ==
    /\ sources = <<>>
    /\ status = "IDLE"
    /\ error = Null
    /\ currentPage = 1
    /\ analysis = Null
    /\ isAnalyzing = FALSE
    /\ mounted = FALSE
    /\ fetches = <<>>
    /\ analyses = <<>>
    /\ timers = 0
    /\ shownPage = 0
    /\ analysisTitles = <<>>

\* fetchBookSources not called yet
RaceInit ==
    /\ pc = "idle"
    /\ page = 0
    /\ inv = <<>>
    /\ anyP = AnyPending(0)
    /\ result = <<>>
    /\ firstOk = 0

\* parseHtmlContent not called yet
CallsInit ==
    /\ uniqueSources = <<>>
    /\ calls = <<>>

\* ------------------------------------------------------------------------
\* Actions of the race
\* ------------------------------------------------------------------------
\* invocation i moves to f; a settled promise runs the reaction Promise.any put on it
Settle(i, f) ==
    /\ inv' = [inv EXCEPT ![i] = f]
    /\ anyP' = CASE f.at = "returned" -> AnyOnFulfilled(anyP, i, f.html)
                 [] f.at = "thrown" -> AnyOnRejected(anyP, i, f.error)
                 [] OTHER -> anyP
    /\ firstOk' = IF firstOk = 0 /\ f.at = "returned" THEN i ELSE firstOk

\* fetchBookSources(p) runs to await Promise.any(strategies)
Call(p) ==
    /\ pc = "idle"
    /\ page' = p
    /\ inv' = Strategies(p)
    /\ anyP' = AnyPending(Len(Strategies(p)))
    /\ pc' = "racing"
    /\ UNCHANGED <<result, firstOk, domError, pureVars, callVars, appVars>>

\* fetch() of invocation i rejects (network failure)
FetchRejects(i) ==
    /\ inv[i].at = "fetch"
    /\ Settle(i, Throw(inv[i], NetworkError))
    /\ UNCHANGED <<pc, page, result, domError, pureVars, callVars, appVars>>

\* fetch() of invocation i resolves with a response
FetchResponds(i) ==
    /\ inv[i].at = "fetch"
    /\ \E code \in Statuses : Settle(i, OnResponse(inv[i], code))
    /\ UNCHANGED <<pc, page, result, domError, pureVars, callVars, appVars>>

\* response.text() / response.json() of invocation i rejects
BodyRejects(i) ==
    /\ inv[i].at = "body"
    /\ Settle(i, Throw(inv[i], BodyError(inv[i].fetcher)))
    /\ UNCHANGED <<pc, page, result, domError, pureVars, callVars, appVars>>

\* response.text() of a CorsProxy / CodeTabs invocation resolves
TextArrives(i) ==
    /\ inv[i].at = "body"
    /\ inv[i].fetcher # "AllOrigins"
    /\ \E html \in NetBodies : Settle(i, OnHtml(inv[i], html))
    /\ UNCHANGED <<pc, page, result, domError, pureVars, callVars, appVars>>

\* response.json() of an AllOrigins invocation resolves
JsonArrives(i) ==
    /\ inv[i].at = "body"
    /\ inv[i].fetcher = "AllOrigins"
    /\ \E data \in JsonBodies :
          Settle(i, OnJson(inv[i], data))
    /\ UNCHANGED <<pc, page, result, domError, pureVars, callVars, appVars>>

\* fetchBookSources resumes after await Promise.any with the html, parses it, returns
ResumeWithHtml ==
    /\ pc = "racing"
    /\ anyP.state = "fulfilled"
    /\ \E thrown \in DomThrows :
          /\ result' = <<AfterRace(anyP, page, thrown)>>
          /\ domError' = thrown
    /\ pc' = "done"
    /\ UNCHANGED <<page, inv, anyP, firstOk, pureVars, callVars, appVars>>

\* fetchBookSources resumes after await Promise.any in its catch block, returns
ResumeInCatch ==
    /\ pc = "racing"
    /\ anyP.state = "rejected"
    /\ result' = <<AfterRace(anyP, page, <<>>)>>
    /\ pc' = "done"
    /\ UNCHANGED <<page, inv, anyP, firstOk, domError, pureVars, callVars, appVars>>

Init ==
    /\ RaceInit
    /\ domError = <<>>
    /\ input = Undefined
    /\ valid = <<>>
    /\ parsed = <<>>
    /\ CallsInit
    /\ AppInit
    /\ hasApiKey = FALSE

Next ==
    \/ \E p \in 1 .. MaxPage : Call(p)
    \/ \E i \in DOMAIN inv : FetchRejects(i)
    \/ \E i \in DOMAIN inv : FetchResponds(i)
    \/ \E i \in DOMAIN inv : BodyRejects(i)
    \/ \E i \in DOMAIN inv : TextArrives(i)
    \/ \E i \in DOMAIN inv : JsonArrives(i)
    \/ ResumeWithHtml
    \/ ResumeInCatch

Spec == Init /\ [][Next]_vars

\* an invocation moves on
Settles ==
    \E i \in DOMAIN inv :
        FetchRejects(i) \/ FetchResponds(i) \/ BodyRejects(i) \/ TextArrives(i) \/ JsonArrives(i)

\* fetchBookSources resumes after its await: of the steps of Next, those from a
\* settled race to the return are ResumeWithHtml and ResumeInCatch, and one of
\* the two is enabled exactly when the promise awaited has settled
Resumes == pc = "racing" /\ anyP.state # "pending" /\ pc' = "done"

\* the call under the assumption that every invocation settles in the end (the
\* network layer answers or fails), with the event loop running the continuation
\* of a settled promise
SpecLive == Init /\ [][Next]_vars /\ WF_vars(Settles) /\ WF_pc(Resumes)

\* ------------------------------------------------------------------------
\* The pure functions on their own
\* ------------------------------------------------------------------------
Validate ==
    /\ valid = <<>>
    /\ valid' = <<isValidContent(input)>>
    /\ UNCHANGED <<raceVars, domError, input, parsed, callVars, appVars>>

Parse ==
    /\ parsed = <<>>
    /\ input.kind = "string"
    /\ \E thrown \in DomThrows :
          /\ parsed' = <<parseHtmlContent(input, thrown)>>
          /\ domError' = thrown
    /\ UNCHANGED <<raceVars, input, valid, callVars, appVars>>

InitPure ==
    /\ RaceInit
    /\ domError = <<>>
    /\ input \in HtmlInputs \cup {Undefined}
    /\ valid = <<>>
    /\ parsed = <<>>
    /\ CallsInit
    /\ AppInit
    /\ hasApiKey = FALSE

NextPure == Validate \/ Parse

SpecPure == InitPure /\ [][NextPure]_vars

\* ------------------------------------------------------------------------
\* parseHtmlContent called again and again
\* ------------------------------------------------------------------------
\* the HTML strings of the calls
CallInputs ==
    { Html(<<Anchor(HREF_ID1, TITLE_A)>>, 0),
      Html(<<Anchor(HREF_ID2, TITLE_B), Anchor(HREF_ID1, TITLE_A), Anchor(HREF_ID12, TITLE_A)>>, 0),
      Html(<<TextNode(TEXT_LINK)>>, 0),
      EmptyString }

\* one call of parseHtmlContent(html), from entry to return
CallParse(html) ==
    /\ Len(calls) < MaxCalls
    /\ \E thrown \in DomThrows :
          /\ calls' = Append(calls, [html |-> html, thrown |-> thrown,
                                     result |-> parseHtmlContent(html, thrown)])
          /\ uniqueSources' = IF thrown = <<>> THEN FilledMap(html) ELSE uniqueSources
          /\ domError' = thrown
    /\ UNCHANGED <<raceVars, pureVars, appVars>>

InitCalls ==
    /\ RaceInit
    /\ domError = <<>>
    /\ input = Undefined
    /\ valid = <<>>
    /\ parsed = <<>>
    /\ CallsInit
    /\ AppInit
    /\ hasApiKey = FALSE

NextCalls == \E html \in CallInputs : CallParse(html)

SpecCalls == InitCalls /\ [][NextCalls]_vars

\* ------------------------------------------------------------------------
\* The App component (App.tsx).  A step is one event handler, effect or
\* continuation run to its end, with the render that follows it; a click on a
\* page control and the effect of lines 55-57 that its render starts are one step.
\* ------------------------------------------------------------------------
coreVars == <<raceVars, domError, pureVars, callVars>>

MSG_UNKNOWN == <<"Unknown error">>

MSG_AI_FAILED == <<"AI Analysis failed. Check console or API Key configuration.">>

\* the href of the record a listing page shows
PageHref(p) == <<"/">> \o LINK_PREFIX \o NatToStr(p) \o DOT_HTML

\* what fetchBookSources(p) may resolve with: the records of the page in one of
\* two states of the site, the failure of a page without links, the failure of
\* a lost race
FetchOutcomes(p) ==
    { parseHtmlContent(Html(<<Anchor(PageHref(p), TITLE_A)>>, 0), <<>>),
      parseHtmlContent(Html(<<Anchor(PageHref(p), TITLE_B)>>, 0), <<>>),
      parseHtmlContent(EmptyString, <<>>),
      AllFailedResult(p, AggregateError(<<NetworkError, NetworkError, NetworkError>>)) }

\* line 38: result.error || "Unknown error"
ErrorOf(r) == IF "error" \in DOMAIN r /\ r.error # <<>> THEN r.error ELSE MSG_UNKNOWN

\* line 70: sources.map(s => s.title)
Titles(list) == [k \in DOMAIN list |-> list[k].title]

\* what analyzeTitles(titles) may resolve with (scraperService.ts:221-266): null
\* without a key, for no titles, or after an error; else the model's answer
AnalyzeOutcomes(titles) ==
    IF ~hasApiKey \/ Len(titles) = 0 THEN {Null}
    ELSE {Null, Some([summary |-> <<"summary">>, tags |-> <<"tag">>])}

\* the sequence without its element i
Remove(seq, i) == SubSeq(seq, 1, i - 1) \o SubSeq(seq, i + 1, Len(seq))

\* handleFetch(p) up to its await (lines 26-32)
HandleFetch(p) ==
    /\ status' = "LOADING"
    /\ error' = Null
    /\ analysis' = Null
    /\ analysisTitles' = <<>>
    /\ sources' = <<>>
    /\ fetches' = Append(fetches, p)

\* the effect of lines 55-57 after the first render
Mount ==
    /\ ~mounted
    /\ mounted' = TRUE
    /\ HandleFetch(currentPage)
    /\ UNCHANGED <<currentPage, isAnalyzing, hasApiKey, analyses, timers, shownPage, coreVars>>

\* handleFetch after its await (lines 34-40): call i resolves
FetchReturns(i) ==
    /\ \E r \in FetchOutcomes(fetches[i]) :
          IF r.success
          THEN /\ sources' = r.data
               /\ status' = "SUCCESS"
               /\ UNCHANGED error
          ELSE /\ error' = Some(ErrorOf(r))
               /\ status' = "ERROR"
               /\ UNCHANGED sources
    /\ fetches' = Remove(fetches, i)
    /\ shownPage' = fetches[i]
    /\ UNCHANGED <<currentPage, analysis, isAnalyzing, hasApiKey, mounted, analyses, timers,
                   analysisTitles, coreVars>>

\* the disabled attribute of the controls (lines 136, 250, 262, 275)
RefreshDisabled == status = "LOADING"

PrevDisabled == currentPage = 1 \/ status = "LOADING"

\* a variant of the page-number buttons that are never disabled
PageDisabledNever == FALSE

PageDisabled == status = "LOADING"

NextDisabled == status = "LOADING" \/ (status = "ERROR" /\ Len(sources) = 0)

\* getPageNumbers (lines 90-101)
PageNumbers ==
    LET startPage == IF currentPage - 2 > 1 THEN currentPage - 2 ELSE 1
    IN  {startPage + i : i \in 0 .. 4}

\* handlePageChange (lines 83-87) and the effect of lines 55-57: setting the
\* page it already has renders nothing and starts nothing
HandlePageChange(newPage) ==
    IF newPage < 1 \/ newPage = currentPage
    THEN UNCHANGED <<appVars, coreVars>>
    ELSE /\ currentPage' = newPage
         /\ HandleFetch(newPage)
         /\ UNCHANGED <<isAnalyzing, hasApiKey, mounted, analyses, timers, shownPage, coreVars>>

ClickRefresh ==
    /\ mounted
    /\ ~RefreshDisabled
    /\ HandleFetch(currentPage)
    /\ UNCHANGED <<currentPage, isAnalyzing, hasApiKey, mounted, analyses, timers, shownPage,
                   coreVars>>

ClickPrev ==
    /\ mounted
    /\ ~PrevDisabled
    /\ HandlePageChange(currentPage - 1)

ClickPage(n) ==
    /\ mounted
    /\ n \in PageNumbers
    /\ ~PageDisabled
    /\ HandlePageChange(n)

ClickNext ==
    /\ mounted
    /\ ~NextDisabled
    /\ currentPage < MaxPage
    /\ HandlePageChange(currentPage + 1)

\* the Analyze button (lines 122-125) and handleAnalyze up to its await (66-71)
ClickAnalyze ==
    /\ mounted
    /\ hasApiKey
    /\ Len(sources) > 0
    /\ ~isAnalyzing
    /\ isAnalyzing' = TRUE
    /\ analyses' = Append(analyses, Titles(sources))
    /\ UNCHANGED <<sources, status, error, currentPage, analysis, hasApiKey, mounted, fetches,
                   timers, shownPage, analysisTitles, coreVars>>

\* handleAnalyze after its await (lines 73-80): call i resolves
AnalyzeReturns(i) ==
    /\ \E r \in AnalyzeOutcomes(analyses[i]) :
          IF r # Null
          THEN /\ analysis' = r
               /\ analysisTitles' = analyses[i]
               /\ UNCHANGED <<error, timers>>
          ELSE /\ timers < MaxTimers
               /\ error' = Some(MSG_AI_FAILED)
               /\ timers' = timers + 1
               /\ UNCHANGED <<analysis, analysisTitles>>
    /\ isAnalyzing' = FALSE
    /\ analyses' = Remove(analyses, i)
    /\ UNCHANGED <<sources, status, currentPage, hasApiKey, mounted, fetches, shownPage,
                   coreVars>>

\* the callback of line 78 runs
TimerFires ==
    /\ timers > 0
    /\ timers' = timers - 1
    /\ error' = Null
    /\ UNCHANGED <<sources, status, currentPage, analysis, isAnalyzing, hasApiKey, mounted,
                   fetches, analyses, shownPage, analysisTitles, coreVars>>

InitApp ==
    /\ RaceInit
    /\ domError = <<>>
    /\ input = Undefined
    /\ valid = <<>>
    /\ parsed = <<>>
    /\ CallsInit
    /\ AppInit
    /\ hasApiKey \in BOOLEAN

NextApp ==
    \/ Mount
    \/ \E i \in DOMAIN fetches : FetchReturns(i)
    \/ ClickRefresh
    \/ ClickPrev
    \/ \E n \in 1 .. MaxPage : ClickPage(n)
    \/ ClickNext
    \/ ClickAnalyze
    \/ \E i \in DOMAIN analyses : AnalyzeReturns(i)
    \/ TimerFires

SpecApp == InitApp /\ [][NextApp]_vars

\* ------------------------------------------------------------------------
\* Properties
\* ------------------------------------------------------------------------
Done == pc = "done"

Returns == Done /\ ~result[1].raised

\* the ScrapeResult fetchBookSources returned
TheResult == result[1].value

AllThrown == \A i \in DOMAIN inv : inv[i].at = "thrown"

\* whether the text part occurs somewhere in the text whole
Contains(whole, part) == \E k \in 1 .. Len(whole) : OccursAt(whole, part, k)

\* C1: once fetchBookSources has returned after some invocation succeeded, its
\* result is parseHtmlContent of the html of the invocation that succeeded first,
\* whatever the other invocations did before or do afterwards.
C1_FirstSuccessWins ==
    (Done /\ firstOk # 0) =>
        /\ ~result[1].raised
        /\ TheResult = parseHtmlContent(inv[firstOk].html, domError)

\* C1 witness: returned with the first success's records while another invocation
\* succeeded later with a different page and a third one failed.
C1_Witness ==
    /\ Done
    /\ firstOk # 0
    /\ TheResult.success
    /\ \E j, k \in DOMAIN inv :
          /\ j # firstOk
          /\ inv[j].at = "returned"
          /\ inv[j].html # inv[firstOk].html
          /\ inv[k].at = "thrown"

\* C2: if every invocation rejected, fetchBookSources returns success false with
\* no data and an error text that contains the message of each rejection.
C2_AllFailAggregates ==
    (Done /\ AllThrown) =>
        /\ ~result[1].raised
        /\ TheResult.success = FALSE
        /\ TheResult.data = <<>>
        /\ \A i \in DOMAIN inv : Contains(TheResult.error, inv[i].error.message)

\* C2 witness: three invocations that all rejected, each with a different message.
C2_Witness ==
    /\ Done
    /\ AllThrown
    /\ Len(inv) = 3
    /\ \A i, j \in DOMAIN inv : i # j => inv[i].error.message # inv[j].error.message

\* the ways a fetcher fails
FailedWith(name, text) ==
    \E i \in DOMAIN inv :
        inv[i].at = "thrown" /\ inv[i].error.name = name /\ Contains(inv[i].error.message, text)

\* C3: fetchBookSources always ends by returning a ScrapeResult, never with an
\* exception; when every fetcher failed, or the DOM raised in the extractor, the
\* returned ScrapeResult has success false.
C3_NeverRejects ==
    Done =>
        /\ ~result[1].raised
        /\ DOMAIN TheResult \in {{"success", "data"}, {"success", "data", "error"}}
        /\ (AllThrown \/ domError # <<>>) => TheResult.success = FALSE

\* C3 witness: returned a failure after a network error, an HTTP error status, an
\* invalid-content rejection and a malformed JSON body.
C3_Witness ==
    /\ Done
    /\ ~result[1].raised
    /\ ~TheResult.success
    /\ FailedWith("TypeError", <<"Failed to fetch">>)
    /\ FailedWith("Error", <<" error: ">>)
    /\ FailedWith("Error", <<" returned invalid content">>)
    /\ FailedWith("SyntaxError", <<"Unexpected token < in JSON">>)

\* the two shapes of a ScrapeResult
WellFormed(r) ==
    \/ r.success /\ Len(r.data) > 0 /\ "error" \notin DOMAIN r
    \/ ~r.success /\ r.data = <<>> /\ "error" \in DOMAIN r /\ Len(r.error) > 0

\* C4: a ScrapeResult returned by fetchBookSources, from the extractor or from
\* the catch block, is either success with records and no error field, or failure
\* with no records and a non-empty error text.
C4_WellFormedResult == Returns => WellFormed(TheResult)

\* C4 witness: the race was won by a page in which the extractor finds no record.
C4_Witness ==
    /\ Returns
    /\ anyP.state = "fulfilled"
    /\ domError = <<>>
    /\ QuerySelectorAllA(anyP.value.doc) = <<>>
    /\ ~TheResult.success

\* C5: when a fetcher won the race, the result is the extractor's result for the
\* winning html as it is, the "no matching source links" failure included, and
\* never the all-proxies-failed result.
C5_WinnerResultUnchanged ==
    (Done /\ anyP.state = "fulfilled") =>
        /\ result[1] = Returned(parseHtmlContent(anyP.value, domError))
        /\ (domError = <<>> /\ VisitLinks(<<>>, QuerySelectorAllA(anyP.value.doc)) = <<>>)
              => TheResult.error = MSG_NO_LINKS

\* C5 witness: the winning page has no record, another invocation returned a page
\* with records, and the result is the "no matching source links" failure.
C5_Witness ==
    /\ Returns
    /\ firstOk # 0
    /\ "error" \in DOMAIN TheResult
    /\ TheResult.error = MSG_NO_LINKS
    /\ \E j \in DOMAIN inv :
          /\ j # firstOk
          /\ inv[j].at = "returned"
          /\ parseHtmlContent(inv[j].html, <<>>).success

\* the invocations whose argument is url
BoundTo(url) == {i \in DOMAIN inv : inv[i].url = url}

\* C6: page 1 launches four invocations, three on the listing URL and one
\* direct-relay invocation on the site root; a page N > 1 launches three, all on
\* the listing URL with ?page=N, none on the site root.
C6_FetcherSet ==
    pc # "idle" =>
        /\ \A i \in DOMAIN inv : Len(inv[i].requests) >= 1
        /\ page = 1 =>
              /\ Len(inv) = 4
              /\ Cardinality(BoundTo(TARGET_URL)) = 3
              /\ \E i \in DOMAIN inv :
                    /\ BoundTo(BASE_URL \o <<"/">>) = {i}
                    /\ inv[i].fetcher = "CorsProxy"
        /\ page > 1 =>
              /\ Len(inv) = 3
              /\ BoundTo(TARGET_URL \o <<"?", "p", "a", "g", "e", "=">> \o NatToStr(page))
                    = DOMAIN inv
              /\ BoundTo(BASE_URL \o <<"/">>) = {}

\* C6 witness: a call for a page after the first has launched its invocations.
C6_Witness == pc = "racing" /\ page > 1 /\ Len(inv) = 3

\* what a step may do to the invocations
C7_Step ==
    \A i \in DOMAIN inv :
        /\ i \in DOMAIN inv'
        /\ Len(inv'[i].requests) <= 1
        /\ inv[i].at = "thrown" => inv'[i] = inv[i]

\* C7: in every step, an invocation has issued one request at most, and one that
\* has rejected stays as it is: it is not launched again and issues nothing more.
C7_NoRetry == [][C7_Step]_vars

\* C7 witness: the call is over, every invocation rejected, one request each.
C7_Witness ==
    /\ Done
    /\ AllThrown
    /\ \A i \in DOMAIN inv : Len(inv[i].requests) = 1

\* s contains content/id/<digits>.html
AllDigits(s, from, to) == \A m \in from .. to : s[m] \in Digits

HasRecordLink(s) ==
    \E i \in 1 .. Len(s) :
        /\ s[i] = "c"
        /\ OccursAt(s, LINK_PREFIX, i)
        /\ \E k \in 1 .. (Len(s) - i) :
              /\ AllDigits(s, i + 11, i + 10 + k)
              /\ OccursAt(s, DOT_HTML, i + 11 + k)

\* C8: isValidContent(html) is true exactly when html has 500 characters or more
\* and contains content/id/<digits>.html somewhere.
C8_ValidatorExact ==
    valid # <<>> =>
        (valid[1] <=> /\ input.kind = "string"
                      /\ Len(RawText(input)) >= 500
                      /\ HasRecordLink(RawText(input)))

\* C8 witness: a text of 499 characters that contains a record link is rejected.
C8_Witness ==
    /\ valid = <<FALSE>>
    /\ input.kind = "string"
    /\ Len(RawText(input)) = 499
    /\ HasRecordLink(RawText(input))

\* the relay answers that pass the validator
ValidHtmls == {h \in RelayHtmls : isValidContent(h)}

\* the contract of one invocation
C9_Invocation(f) ==
    /\ f.at = "returned" => Ok(f.status) /\ f.bodyRead /\ f.html \in ValidHtmls
    /\ (f.status # 0 /\ f.status \notin 200 .. 299) =>
          /\ f.at = "thrown"
          /\ f.error = Error(<<f.fetcher, " error: ">> \o NatToStr(f.status))
          /\ ~f.bodyRead
          /\ f.html = NoHtml
    /\ (f.fetcher = "AllOrigins" /\ f.data # NoData /\ ~f.data.isNull) =>
          /\ "contents" \in DOMAIN f.data => f.html = f.data.contents
          /\ ("contents" \notin DOMAIN f.data \/ f.html = EmptyString) =>
                /\ f.at = "thrown"
                /\ f.error = Error(<<"AllOrigins", " returned invalid content">>)

\* C9: a fetcher returns only after a 2xx response whose payload passes the
\* validator; after a non-2xx response it throws its HTTP error with the body
\* unread; the wrapped-JSON fetcher validates the envelope's contents field, and
\* throws "invalid content" when that field is missing or empty.
C9_FetcherContract == \A i \in DOMAIN inv : C9_Invocation(inv[i])

\* C9 witness: one invocation returned, one threw on a 404, and the AllOrigins
\* invocation threw on an envelope without a contents field.
C9_Witness ==
    \E i, j, k \in DOMAIN inv :
        /\ inv[i].at = "returned"
        /\ inv[j].at = "thrown" /\ inv[j].status = 404
        /\ inv[k].fetcher = "AllOrigins"
        /\ inv[k].at = "thrown"
        /\ inv[k].data = [isNull |-> FALSE]

\* the ids an href carries: the digits of each content/id/(digits).html in it
LinkIds(href) ==
    UNION {{SubSeq(href, i + 11, i + 10 + k) :
               k \in {n \in 1 .. (Len(href) - i) :
                        /\ i + 10 + n <= Len(href)
                        /\ AllDigits(href, i + 11, i + 10 + n)
                        /\ OccursAt(href, DOT_HTML, i + 11 + n)}} :
           i \in {j \in 1 .. Len(href) : OccursAt(href, LINK_PREFIX, j)}}

MatchingAnchors(doc) ==
    {n \in DOMAIN doc : doc[n].tag = "a" /\ doc[n].hasHref /\ LinkIds(doc[n].href) # {}}

DistinctIds(doc) == UNION {LinkIds(doc[n].href) : n \in MatchingAnchors(doc)}

\* C10: when the anchors of the html carry M >= 1 distinct ids in hrefs matching
\* content/id/(digits).html, and the DOM raises nothing, parseHtmlContent returns
\* success with exactly M records, one per id.
C10_RecordCount ==
    (parsed # <<>> /\ domError = <<>> /\ DistinctIds(input.doc) # {}) =>
        /\ parsed[1].success
        /\ Len(parsed[1].data) = Cardinality(DistinctIds(input.doc))
        /\ {parsed[1].data[k].id : k \in DOMAIN parsed[1].data} = DistinctIds(input.doc)

\* C10 witness: three matching anchors with two distinct ids gave two records.
C10_Witness ==
    /\ parsed # <<>>
    /\ domError = <<>>
    /\ Cardinality(MatchingAnchors(input.doc)) = 3
    /\ Cardinality(DistinctIds(input.doc)) = 2
    /\ parsed[1].success
    /\ Len(parsed[1].data) = 2

\* the first anchor of the document, in document order, whose href carries the id
FirstAnchor(doc, id) == Min({n \in MatchingAnchors(doc) : id \in LinkIds(doc[n].href)})

\* C11: when several matching anchors carry the same id, the record of that id
\* has the title, originalUrl and updateDate of the first such anchor in document
\* order, and the records are ordered by where each id occurs first.
C11_FirstAnchorKept ==
    (parsed # <<>> /\ domError = <<>> /\ parsed[1].success) =>
        LET data == parsed[1].data
            doc == input.doc
        IN  /\ \A k \in DOMAIN data :
                   LET first == doc[FirstAnchor(doc, data[k].id)]
                   IN  /\ data[k].title = TitleOf(first, data[k].id)
                       /\ data[k].originalUrl = OriginalUrlOf(first.href)
                       /\ data[k].updateDate = UpdateDateOf(first)
            /\ \A k, l \in DOMAIN data :
                   k < l => FirstAnchor(doc, data[k].id) < FirstAnchor(doc, data[l].id)

\* C11 witness: two records, and an id that a later anchor repeats with another
\* title, another address and another date.
C11_Witness ==
    /\ parsed # <<>>
    /\ domError = <<>>
    /\ parsed[1].success
    /\ Len(parsed[1].data) = 2
    /\ \E n, m \in MatchingAnchors(input.doc) :
          /\ n < m
          /\ LinkIds(input.doc[n].href) = LinkIds(input.doc[m].href)
          /\ n = FirstAnchor(input.doc, idRegexMatch(input.doc[n].href)[1])
          /\ TitleOf(input.doc[n], <<>>) # TitleOf(input.doc[m], <<>>)
          /\ OriginalUrlOf(input.doc[n].href) # OriginalUrlOf(input.doc[m].href)
          /\ UpdateDateOf(input.doc[n]) # UpdateDateOf(input.doc[m])

\* whether the characters from..to of w are all in the set
AllIn(w, from, to, set) == \A m \in from .. to : w[m] \in set

\* whether the text w, whole, is a date written YYYY-MM-DD
IsDate1(w) ==
    /\ Len(w) = 10
    /\ \A m \in {1, 2, 3, 4, 6, 7, 9, 10} : w[m] \in Digits
    /\ w[5] = "-"
    /\ w[8] = "-"

\* whether the text w, whole, is a date written MM/DD HH:MM, one or two digits each
IsDate2(w) ==
    \E a, b, c, d \in 1 .. 2 : \E g \in 1 .. Len(w) :
        /\ Len(w) = a + 1 + b + g + c + 1 + d
        /\ AllIn(w, 1, a, Digits)
        /\ w[a + 1] = "/"
        /\ AllIn(w, a + 2, a + 1 + b, Digits)
        /\ AllIn(w, a + b + 2, a + b + 1 + g, Whitespace)
        /\ AllIn(w, a + b + g + 2, a + b + g + 1 + c, Digits)
        /\ w[a + b + g + c + 2] = ":"
        /\ AllIn(w, a + b + g + c + 3, Len(w), Digits)

\* whether the text w, whole, is a relative time: a number, a unit, "qian" (ago)
IsDate3(w) ==
    \E n \in 1 .. Len(w) : \E g \in 0 .. Len(w) : \E u \in {1, 2} :
        /\ Len(w) = n + g + u + 1
        /\ AllIn(w, 1, n, Digits)
        /\ AllIn(w, n + 1, n + g, Whitespace)
        /\ SubSeq(w, n + g + 1, n + g + u) \in {<<"tian">>, <<"xiao", "shi">>, <<"fen", "zhong">>, <<"miao">>}
        /\ w[Len(w)] = "qian"

\* the parts of the text, MaxDateLen characters long at most, that are a date of
\* the kind IsDate
DatesIn(text, IsDate(_)) ==
    UNION {{SubSeq(text, i, j) : j \in {x \in i .. Min({Len(text), i + MaxDateLen - 1}) :
                                            IsDate(SubSeq(text, i, x))}} :
           i \in 1 .. Len(text)}

\* the dates of the kind that comes first in the order YYYY-MM-DD, MM/DD HH:MM,
\* relative time, among the kinds the text has
Priority(text) ==
    IF DatesIn(text, IsDate1) # {} THEN DatesIn(text, IsDate1)
    ELSE IF DatesIn(text, IsDate2) # {} THEN DatesIn(text, IsDate2)
    ELSE DatesIn(text, IsDate3)

\* the texts around a link as the code reads them: whitespace collapsed
ContextOf(link) == CollapseWs(ParentText(link))

WiderContextOf(link) == CollapseWs(GrandParentText(link))

\* the text whose dates decide updateDate: the parent's if it has a date, else
\* the grandparent's if that is searched; <<>> if neither
SearchedText(link) ==
    IF Priority(ContextOf(link)) # {} THEN ContextOf(link)
    ELSE IF Len(WiderContextOf(link)) < 1000 THEN WiderContextOf(link)
    ELSE <<>>

\* the records of the parse with the anchor each was made from
RecordsOf(p, doc) ==
    {[record |-> p.data[k], link |-> doc[FirstAnchor(doc, p.data[k].id)]] : k \in DOMAIN p.data}

Parsed == parsed # <<>> /\ domError = <<>> /\ parsed[1].success

\* C12: within the text searched, updateDate is a match of the first of the
\* patterns YYYY-MM-DD, MM/DD HH:MM, relative time that matches anywhere in it,
\* wherever the matches stand; it is unset when no pattern matches.
C12_DatePriority ==
    Parsed =>
        \A r \in RecordsOf(parsed[1], input.doc) :
            LET text == SearchedText(r.link)
            IN  IF Priority(text) = {}
                THEN r.record.updateDate = <<>>
                ELSE /\ r.record.updateDate # <<>>
                     /\ r.record.updateDate[1] \in Priority(text)

\* C12 witness: the parent text has a relative time and, after it, a YYYY-MM-DD
\* date; updateDate is the YYYY-MM-DD date.
C12_Witness ==
    /\ Parsed
    /\ \E r \in RecordsOf(parsed[1], input.doc) :
          /\ r.link.ptext = DATE_AGO \o DATE_ISO
          /\ DatesIn(ContextOf(r.link), IsDate3) # {}
          /\ r.record.updateDate = <<Tail(DATE_ISO)>>

\* the dates of any of the three kinds in the text
AllDates(text) == DatesIn(text, IsDate1) \cup DatesIn(text, IsDate2) \cup DatesIn(text, IsDate3)

\* C13: when the parent text matches none of the three patterns and the
\* grandparent text, whitespace collapsed, has 1000 characters or more,
\* updateDate stays unset, whatever dates the grandparent text holds.
C13_GrandparentGate ==
    Parsed =>
        \A r \in RecordsOf(parsed[1], input.doc) :
            (AllDates(ContextOf(r.link)) = {} /\ Len(WiderContextOf(r.link)) >= 1000)
                => r.record.updateDate = <<>>

\* C13 witness: no date in the parent, a grandparent text of exactly 1000
\* characters with a YYYY-MM-DD date in it, and updateDate unset.
C13_Witness ==
    /\ Parsed
    /\ \E r \in RecordsOf(parsed[1], input.doc) :
          /\ AllDates(ContextOf(r.link)) = {}
          /\ Len(WiderContextOf(r.link)) = 1000
          /\ DatesIn(WiderContextOf(r.link), IsDate1) # {}
          /\ r.record.updateDate = <<>>

\* C16: if the parent text matches any of the patterns, updateDate is a date of
\* the parent text, also when the grandparent text holds a date of a pattern
\* that comes earlier in the order; a date found only in the grandparent is
\* taken only when the parent text matches none.
C16_ParentFirst ==
    Parsed =>
        \A r \in RecordsOf(parsed[1], input.doc) :
            LET near == AllDates(ContextOf(r.link))
            IN  /\ near # {} => r.record.updateDate # <<>> /\ r.record.updateDate[1] \in near
                /\ (r.record.updateDate # <<>> /\ r.record.updateDate[1] \notin near) => near = {}

\* C16 witness: a relative time in the parent, a YYYY-MM-DD date in the
\* grandparent only, and updateDate is the relative time.
C16_Witness ==
    /\ Parsed
    /\ \E r \in RecordsOf(parsed[1], input.doc) :
          /\ DatesIn(ContextOf(r.link), IsDate1) = {}
          /\ DatesIn(ContextOf(r.link), IsDate3) # {}
          /\ DatesIn(WiderContextOf(r.link), IsDate1) # {}
          /\ Len(WiderContextOf(r.link)) < 1000
          /\ r.record.updateDate # <<>>
          /\ r.record.updateDate[1] \in DatesIn(ContextOf(r.link), IsDate3)

Pending(i) == inv[i].at \in {"fetch", "body"}

\* C14: fetchBookSources returns only once an invocation has succeeded or all
\* have rejected; after a first success the promise it awaits is fulfilled, so
\* that its return is enabled whatever the other invocations are doing; and,
\* every invocation settling in the end, a call that waits at the race returns a
\* ScrapeResult in the end.
C14_Resolves ==
    /\ [](Done => (firstOk # 0 \/ AllThrown))
    /\ []((pc = "racing" /\ firstOk # 0) => anyP.state = "fulfilled")
    /\ ((pc = "racing") ~> (Done /\ ~result[1].raised))

\* C14 witness: the call has returned a ScrapeResult while two invocations had
\* not settled yet.
C14_Witness ==
    /\ Returns
    /\ firstOk # 0
    /\ \E i, j \in DOMAIN inv : i # j /\ Pending(i) /\ Pending(j)

\* the ids of a record list, in its order
IdsOf(data) == [k \in DOMAIN data |-> data[k].id]

\* C15: two calls of parseHtmlContent on the same HTML string, the DOM behaving
\* alike in both, give the same success flag and the same ids in the same
\* order, whatever calls were made before and between them.
C15_Idempotent ==
    \A i, j \in DOMAIN calls :
        (i < j /\ calls[i].html = calls[j].html /\ calls[i].thrown = calls[j].thrown) =>
            /\ calls[i].result.success = calls[j].result.success
            /\ IdsOf(calls[i].result.data) = IdsOf(calls[j].result.data)

\* C15 witness: a page parsed, then another page with other ids, then the first
\* page again, all with records.
C15_Witness ==
    /\ Len(calls) = 3
    /\ calls[1].html = calls[3].html
    /\ calls[2].html # calls[1].html
    /\ \A i \in 1 .. 3 : calls[i].thrown = <<>> /\ calls[i].result.success
    /\ IdsOf(calls[1].result.data) # IdsOf(calls[2].result.data)

\* the relay answers whose text holds content/id/(digits).html somewhere
LinkedHtmls == {h \in NetBodies : HasRecordLink(RawText(h))}

WonCleanly == Done /\ firstOk # 0 /\ domError = <<>>

\* C17 as claimed: whenever a fetcher won the race, the payload the validator
\* accepted yields a record, and fetchBookSources returns success.
C17_WinnerSucceeds ==
    WonCleanly =>
        /\ ~result[1].raised
        /\ TheResult.success
        /\ Len(TheResult.data) >= 1

\* C17: the payload of the winning fetcher holds the link pattern in its text;
\* fetchBookSources returns success with a record exactly when the pattern
\* stands in the href of one of the payload's anchors, and the extractor's
\* "no matching source links" failure otherwise.
C17_SuccessNeedsAnchor ==
    WonCleanly =>
        LET html == inv[firstOk].html
        IN  /\ html \in LinkedHtmls
            /\ ~result[1].raised
            /\ TheResult.success <=> MatchingAnchors(html.doc) # {}
            /\ TheResult.success => Len(TheResult.data) >= 1
            /\ ~TheResult.success => TheResult.error = MSG_NO_LINKS

\* C17 witness: the race was won by a payload that passes the validator with
\* the pattern in its text only, and the call returned a failure.
C17_Witness ==
    /\ WonCleanly
    /\ inv[firstOk].html \in ValidHtmls \cap LinkedHtmls
    /\ MatchingAnchors(inv[firstOk].html.doc) = {}
    /\ ~TheResult.success

\* C18: at most one fetchBookSources call is in flight; the controls that start
\* a fetch are disabled while status is LOADING; status is LOADING exactly
\* while a call is pending; a pending call is for the current page, and the
\* result shown is that of the fetch for the current page.
C18_OneFetchInFlight ==
    /\ Len(fetches) <= 1
    /\ (status = "LOADING") <=> (fetches # <<>>)
    /\ status = "LOADING" => (RefreshDisabled /\ PrevDisabled /\ PageDisabled /\ NextDisabled)
    /\ \A i \in DOMAIN fetches : fetches[i] = currentPage
    /\ status \in {"SUCCESS", "ERROR"} => shownPage = currentPage

\* C18 witness: after a change of page and a refresh, page 2 is shown with the
\* records of a fetch for page 2.
C18_Witness ==
    /\ status = "SUCCESS"
    /\ currentPage = 2
    /\ shownPage = 2
    /\ fetches = <<>>
    /\ Len(sources) = 1
    /\ sources[1].id = <<"2">>

\* C19 as claimed: whenever status is ERROR, error holds a message.
C19_ErrorHasMessage == status = "ERROR" => error # Null

\* C20 as claimed: whenever analysis is set, it was computed from the titles of
\* the sources now held.
C20_AnalysisIsCurrent == analysis # Null => analysisTitles = Titles(sources)

====
